---- MODULE Spec2Model ----
(***************************************************************************)
(* Document email dispatch of the "emails" app: the form script            *)
(* emails/public/js/send_email_button.js (button, after-submit prompt,     *)
(* send dialog, send call and its callback) together with the server       *)
(* methods it calls (module emails.api), whose behaviour is taken from the *)
(* design document because their code is not part of the sources.          *)
(*                                                                         *)
(* One document (doctype, DocName) is open in a form, whose page is         *)
(* modelled in full, and in another operator's session, of which only the  *)
(* sends are modelled.  The document status, the configuration row of the  *)
(* doctype and the Communication log live on the server and are shared.    *)
(*                                                                         *)
(* The Email Service Settings form (email_service_settings.js), on which   *)
(* the rows are edited, is a state machine of its own: SettingsSpec.       *)
(***************************************************************************)
EXTENDS Naturals, Sequences, FiniteSets

\* ------------------------------------------------------------------ bounds
\* Send attempts (primary-action clicks of the send dialog) in one run.
MaxDispatch == 2
\* Send dialogs of one form that are loading or open at the same time.
MaxDialogs == 1

\* --------------------------------------------------------------- constants
\* The form whose page is modelled, and the other operator's session.
Forms == {"A"}
OtherSession == "B"
DocName == "QTN-001"

\* emails.SUPPORTED_DOCTYPES of send_email_button.js
SUPPORTED_DOCTYPES ==
    {"Quotation", "Sales Order", "Payment Entry", "Purchase Order", "Payment Request"}

\* Doctypes a form of the model is opened on: one of the list, one outside it.
FormDocTypes == {"Quotation", "Sales Invoice"}

ValidEmail == "buyer@example.com"
\* What the operator may have typed into the dialog when pressing Send:
\* an empty recipient, a malformed one, a valid one with no CC or with a
\* malformed CC.  custom_message is passed through unread and is left out.
DialogValues ==
    { [to_email |-> "",         cc |-> ""],
      [to_email |-> "not-an-address", cc |-> ""],
      [to_email |-> ValidEmail, cc |-> ""],
      [to_email |-> ValidEmail, cc |-> "not-an-address"] }

Labels == {"Send Email", "Resend Email"}
NoButtons == [l \in Labels |-> 0]

\* Outcomes of the delivery collaborator's call.
Outcomes == {"success", "failure", "timeout", "transport_error", "unconfigured"}
FailureMessages == {"quota exceeded"}

\* The settings row of the document type, if there is one.  The rows are the
\* ones the settings form adds, with require_submit = 1; the client script
\* never reads the field.
NoRow == [present |-> FALSE, enabled |-> FALSE, require_submit |-> FALSE]
ConfigRows ==
    {NoRow} \cup
    {[present |-> TRUE, enabled |-> e, require_submit |-> TRUE] : e \in BOOLEAN}

NoResult == [returned |-> FALSE, success |-> FALSE, message |-> ""]
NoResponse == [present |-> FALSE, success |-> FALSE, message |-> ""]
NoNotice == [shown |-> FALSE, success |-> FALSE, message |-> ""]

VARIABLES
    doctype,        \* frm.doctype of the open document
    config,         \* the doctype's row of Email Service Settings (or NoRow)
    docstatus,      \* frm.doc.docstatus: 0 draft, 1 submitted, 2 cancelled
    log,            \* Communication rows written for the document (SendRecords)
    dispatch,       \* the send attempts, in the order they were started; of the
                    \* finished ones only the latest is kept in full
    clicks,         \* primary-action clicks of send dialogs so far
    buttons,        \* per form: custom buttons on the form, label -> count
    enabled_check,  \* per form: the prompt's check_doctype_email_enabled call is in flight
    prompt,         \* per form: the "send an email to the customer?" confirm is shown
    loading,        \* per form: get_document_recipient calls in flight
    dialogs,        \* per form: send dialogs open
    saved,          \* Email Service Settings: doctypes that have a row on the server
    rows,           \* Email Service Settings form: frm.doc.supported_doctypes
    detect_calls,   \* settings form: get_available_doctypes_for_site calls in flight
    available,      \* settings form: open "Available Doctypes" dialogs, each
                    \* with the unconfigured doctypes it was built from
    edited          \* settings form: a row was added or changed by hand since
                    \* the form was opened

vars == <<doctype, config, docstatus, log, dispatch, clicks,
          buttons, enabled_check, prompt, loading, dialogs,
          saved, rows, detect_calls, available, edited>>

server == <<doctype, config, docstatus, log>>
ui == <<buttons, enabled_check, prompt, loading, dialogs>>
settings == <<saved, rows, detect_calls, available, edited>>

\* ---------------------------------------------------------------- helpers
InFlight == {"Validating", "Dispatching", "Recorded", "Rejected"}
Terminal == {"Blocked", "Resolved"}
\* A finished attempt of which only the place in the sequence is kept.
Finished == Terminal \cup {"Done"}

Ids == DOMAIN dispatch

\* freeze: true of the send call: the page is frozen until the call returns
Frozen(f) == \E d \in Ids : dispatch[d].form = f /\ dispatch[d].state \in InFlight

\* A modal (confirm or dialog) or the freeze overlay covers the form's page.
PageBlocked(f) == prompt[f] \/ dialogs[f] > 0 \/ Frozen(f)

RecordsOf(l, d) == {i \in DOMAIN l : l[i].dispatch = d}

\* ------------------------------------------------- server methods (reads)
\* emails.api.check_doctype_email_enabled(doctype): the Configuration
\* Resolver's isEnabled.  It is given the doctype only, never the document.
check_doctype_email_enabled(cfg) ==
    [present |-> TRUE, enabled |-> cfg.present /\ cfg.enabled]

\* frappe.client.get_count on Communication with the filters of the form
\* script: reference_doctype, reference_name, communication_medium = "Email",
\* sent_or_received = "Sent".
get_count(l, dt, dn) ==
    Cardinality({i \in DOMAIN l :
        /\ l[i].reference_doctype = dt
        /\ l[i].reference_name = dn
        /\ l[i].communication_medium = "Email"
        /\ l[i].sent_or_received = "Sent"})

\* emails.check_email_sent: resolve(r.message > 0)
check_email_sent(l, dt, dn) == get_count(l, dt, dn) > 0

\* The Send-History Tracker as the design document states it.
hasSuccessfulSend(l, dt, dn) ==
    \E i \in DOMAIN l :
        /\ l[i].reference_doctype = dt
        /\ l[i].reference_name = dn
        /\ l[i].communication_medium = "Email"
        /\ l[i].sent_or_received = "Sent"
        /\ l[i].status = "Success"

\* ------------------------------------------------------ the form's button
\* Mutant: the button of the previous check is left on the form.
remove_custom_button_kept(b, label) == b

remove_custom_button(b, label) == [b EXCEPT ![label] = 0]
add_custom_button(b, label) == [b EXCEPT ![label] = @ + 1]

\* let button_label = email_sent ? __("Resend Email") : __("Send Email")
button_label(email_sent) == IF email_sent THEN "Resend Email" ELSE "Send Email"

\* Mutant: the callback tests r.message alone and forgets .enabled.
response_enabled_ignored(r) == r.present

\* callback of check_doctype_email_enabled in setup_send_email_button:
\* r.message && r.message.enabled
response_enabled(r) == r.present /\ r.enabled

\* Mutant: once the count is positive no button is added (a document whose
\* email was sent is not offered the send again).
setup_send_email_button_once(b, dt, ds, cfg, l) ==
    IF ds # 1 THEN b
    ELSE IF dt \notin SUPPORTED_DOCTYPES THEN b
    ELSE LET cleared == remove_custom_button(
                            remove_custom_button(b, "Send Email"), "Resend Email")
         IN IF response_enabled(check_doctype_email_enabled(cfg))
               /\ ~check_email_sent(l, dt, DocName)
            THEN add_custom_button(cleared, "Send Email")
            ELSE cleared

\* Mutant: "Send Email" is added as soon as the type is found enabled, and
\* the button chosen by the count is added after it.
setup_send_email_button_twice(b, dt, ds, cfg, l) ==
    IF ds # 1 THEN b
    ELSE IF dt \notin SUPPORTED_DOCTYPES THEN b
    ELSE LET cleared == remove_custom_button(
                            remove_custom_button(b, "Send Email"), "Resend Email")
         IN IF response_enabled(check_doctype_email_enabled(cfg))
            THEN add_custom_button(add_custom_button(cleared, "Send Email"),
                                   button_label(check_email_sent(l, dt, DocName)))
            ELSE cleared

\* emails.setup_send_email_button(frm): the buttons of the form afterwards.
\* Both calls are made with async: false, so the handler runs to its end
\* before anything else happens.
setup_send_email_button(b, dt, ds, cfg, l) ==
    IF ds # 1 THEN b
    ELSE IF dt \notin SUPPORTED_DOCTYPES THEN b
    ELSE LET cleared == remove_custom_button(
                            remove_custom_button(b, "Send Email"), "Resend Email")
         IN IF response_enabled(check_doctype_email_enabled(cfg))
            THEN add_custom_button(cleared, button_label(check_email_sent(l, dt, DocName)))
            ELSE cleared

\* The form's refresh event: the framework drops the custom buttons of the
\* previous rendering, then the registered handler runs.
refresh(f, ds, l) ==
    [buttons EXCEPT ![f] = setup_send_email_button(NoButtons, doctype, ds, config, l)]

HasButton(f) == \E l \in Labels : buttons[f][l] > 0

\* ------------------------------------------------------------------- Init
Init ==
    /\ doctype \in FormDocTypes
    /\ config \in ConfigRows
    /\ docstatus = 0           \* a document starts as a draft
    /\ log = << >>
    /\ dispatch = << >>
    /\ clicks = 0
    /\ buttons = [f \in Forms |-> NoButtons]
    /\ enabled_check = [f \in Forms |-> FALSE]
    /\ prompt = [f \in Forms |-> FALSE]
    /\ loading = [f \in Forms |-> 0]
    /\ dialogs = [f \in Forms |-> 0]
    /\ saved = {}               \* the settings form is not open
    /\ rows = << >>
    /\ detect_calls = 0
    /\ available = << >>
    /\ edited = FALSE

\* ------------------------------------------------------ document lifecycle
\* The operator (re)loads the form: it is rendered and refresh runs.
Refresh(f) ==
    /\ ~PageBlocked(f)
    /\ buttons' = refresh(f, docstatus, log)
    /\ UNCHANGED <<settings, server, dispatch, clicks, enabled_check, prompt, loading, dialogs>>

\* emails.prompt_send_email_after_submit(frm) up to its call: the list check,
\* then check_doctype_email_enabled is sent (not async: false, no freeze).
prompt_send_email_after_submit(f, dt) ==
    IF dt \notin SUPPORTED_DOCTYPES
    THEN enabled_check
    ELSE [enabled_check EXCEPT ![f] = TRUE]

\* The operator submits the draft in form f: the form is rendered again
\* (refresh) and the after_submit handler runs.
Submit(f) ==
    /\ docstatus = 0
    /\ ~PageBlocked(f)
    /\ docstatus' = 1
    /\ buttons' = refresh(f, 1, log)
    /\ enabled_check' = prompt_send_email_after_submit(f, doctype)
    /\ UNCHANGED <<settings, doctype, config, log, dispatch, clicks, prompt, loading, dialogs>>

\* The operator cancels the submitted document in form f.
Cancel(f) ==
    /\ docstatus = 1
    /\ ~PageBlocked(f)
    /\ docstatus' = 2
    /\ buttons' = refresh(f, 2, log)
    /\ UNCHANGED <<settings, doctype, config, log, dispatch, clicks, enabled_check, prompt,
                   loading, dialogs>>

\* Mutant: the callback shows the confirm for any answer of the server.
prompt_callback_unchecked(r) == r.present

\* callback of prompt_send_email_after_submit: frappe.confirm is shown when
\* r.message && r.message.enabled.
prompt_callback(r) == response_enabled(r)

PromptCallback(f) ==
    /\ enabled_check[f]
    /\ enabled_check' = [enabled_check EXCEPT ![f] = FALSE]
    /\ prompt' = [prompt EXCEPT ![f] =
                    @ \/ prompt_callback(check_doctype_email_enabled(config))]
    /\ UNCHANGED <<settings, server, dispatch, clicks, buttons, loading, dialogs>>

PromptNo(f) ==
    /\ prompt[f]
    /\ prompt' = [prompt EXCEPT ![f] = FALSE]
    /\ UNCHANGED <<settings, server, dispatch, clicks, buttons, enabled_check, loading, dialogs>>

\* ------------------------------------------------------------ send dialog
\* emails.show_send_email_dialog(frm) up to its call: get_document_recipient
\* is sent; the dialog is built and shown in its callback.
show_send_email_dialog(f) == [loading EXCEPT ![f] = @ + 1]

\* "Yes" of the after-submit confirm.
PromptYes(f) ==
    /\ prompt[f]
    /\ loading[f] + dialogs[f] < MaxDialogs
    /\ prompt' = [prompt EXCEPT ![f] = FALSE]
    /\ loading' = show_send_email_dialog(f)
    /\ UNCHANGED <<settings, server, dispatch, clicks, buttons, enabled_check, dialogs>>

\* The operator clicks the form's Send Email / Resend Email button.
ClickButton(f) ==
    /\ HasButton(f)
    /\ ~PageBlocked(f)
    /\ loading[f] + dialogs[f] < MaxDialogs
    /\ loading' = show_send_email_dialog(f)
    /\ UNCHANGED <<settings, server, dispatch, clicks, buttons, enabled_check, prompt, dialogs>>

\* callback of get_document_recipient: dialog.show().  The suggested address
\* only pre-fills to_email, which the operator may overwrite, so it is not
\* kept: DialogSend draws what the dialog holds when Send is pressed.
RecipientCallback(f) ==
    /\ loading[f] > 0
    /\ loading' = [loading EXCEPT ![f] = @ - 1]
    /\ dialogs' = [dialogs EXCEPT ![f] = @ + 1]
    /\ UNCHANGED <<settings, server, dispatch, clicks, buttons, enabled_check, prompt>>

\* The operator dismisses a send dialog without sending.
DialogClose(f) ==
    /\ dialogs[f] > 0
    /\ dialogs' = [dialogs EXCEPT ![f] = @ - 1]
    /\ UNCHANGED <<settings, server, dispatch, clicks, buttons, enabled_check, prompt, loading>>

\* A syntactically valid address.
IsEmail(a) == a = ValidEmail

\* Mutant: cc is marked reqd: 1 as well, so an empty CC holds the send back.
primary_action_blocked_cc_reqd(values, strict) ==
    \/ values.to_email = ""
    \/ values.cc = ""
    \/ /\ strict
       /\ \/ ~IsEmail(values.to_email)
          \/ ~IsEmail(values.cc)

\* The dialog's own field checks, made before primary_action is called:
\* to_email is reqd: 1, so an empty recipient never reaches primary_action;
\* to_email and cc are options: "Email", whose format check belongs to the
\* framework: strict is whether this build of it holds a malformed value back.
primary_action_blocked(values, strict) ==
    \/ values.to_email = ""
    \/ /\ strict
       /\ \/ ~IsEmail(values.to_email)
          \/ values.cc # "" /\ ~IsEmail(values.cc)

NewAttempt(f, values, st) ==
    [form |-> f, to_email |-> values.to_email, cc |-> values.cc, state |-> st,
     calls |-> 0, outcome |-> "none", result |-> NoResult,
     response |-> NoResponse, notice |-> NoNotice]

\* Nothing of a request outlives its resolution but the notice on the
\* screen, which the next notice replaces: when an attempt finishes, the
\* attempts finished before it are reduced to whether they reached the
\* delivery collaborator.
Tombstone(a) ==
    [NewAttempt("-", [to_email |-> "", cc |-> ""], "Done") EXCEPT !.calls = a.calls]

Forget(ds) ==
    [i \in DOMAIN ds |-> IF ds[i].state \in Terminal THEN Tombstone(ds[i]) ELSE ds[i]]

InvalidRecipientNotice ==
    [shown |-> TRUE, success |-> FALSE, message |-> "InvalidRecipient"]

\* Mutant: the send is refused as a conflict while another send for the
\* document is in flight.
send_document_email_unless_in_flight(f, values) ==
    IF \E d \in Ids : dispatch[d].state \in InFlight
    THEN [NewAttempt(f, values, "Blocked") EXCEPT
             !.notice = [shown |-> TRUE, success |-> FALSE, message |-> "Conflict"]]
    ELSE NewAttempt(f, values, "Validating")

\* emails.send_document_email(frm, values) up to its call: the send request
\* for (frm.doctype, frm.doc.name) with to_email and cc as given, freeze: true.
send_document_email(f, values) == NewAttempt(f, values, "Validating")

\* Send is pressed in a dialog of session f: the attempt it starts.
\* primary_action: dialog.hide(); emails.send_document_email(frm, values).
primary_action(f, values, strict) ==
    IF primary_action_blocked(values, strict)
    THEN [NewAttempt(f, values, "Blocked") EXCEPT !.notice = InvalidRecipientNotice]
    ELSE send_document_email(f, values)

\* The operator presses Send in an open dialog of form f.
DialogSend(f, values, strict) ==
    /\ dialogs[f] > 0
    /\ Len(dispatch) < MaxDispatch
    /\ clicks' = clicks + 1
    /\ dispatch' = LET a == primary_action(f, values, strict)
                   IN Append(IF a.state \in Terminal THEN Forget(dispatch) ELSE dispatch, a)
    /\ dialogs' = IF primary_action_blocked(values, strict)
                  THEN dialogs
                  ELSE [dialogs EXCEPT ![f] = @ - 1]
    /\ UNCHANGED <<settings, server, buttons, enabled_check, prompt, loading>>

\* The other operator presses Send in a dialog of their session.  They have
\* one whenever their form could have offered it: the doctype is listed and
\* enabled and the document has been submitted (their dialog may have been
\* opened before a cancel).
OtherSend(values, strict) ==
    /\ doctype \in SUPPORTED_DOCTYPES
    /\ response_enabled(check_doctype_email_enabled(config))
    /\ docstatus # 0
    /\ Len(dispatch) < MaxDispatch
    /\ clicks' = clicks + 1
    /\ dispatch' = LET a == primary_action(OtherSession, values, strict)
                   IN Append(IF a.state \in Terminal THEN Forget(dispatch) ELSE dispatch, a)
    /\ UNCHANGED <<settings, server, ui>>

\* ------------------------------------------- server: send_document_email
\* Validating: the request's addresses are checked before anything is sent.
ValidRequest(a) == IsEmail(a.to_email) /\ (a.cc = "" \/ IsEmail(a.cc))

\* The SendRecord of an attempt whose delivery result is res.
SendRecord(d, a, res) ==
    [reference_doctype |-> doctype, reference_name |-> DocName,
     communication_medium |-> "Email", sent_or_received |-> "Sent",
     status |-> IF res.success THEN "Success" ELSE "Failed",
     recipient |-> a.to_email,
     error |-> IF res.success THEN "" ELSE res.message,
     dispatch |-> d]

\* Mutant: the record is written, as a success, when the delivery call is
\* made instead of when it has returned.
ServerReceiveRecordsFirst(d) ==
    /\ dispatch[d].state = "Validating"
    /\ dispatch' = [dispatch EXCEPT ![d] =
            IF ValidRequest(@)
            THEN [@ EXCEPT !.state = "Dispatching", !.calls = @ + 1]
            ELSE [@ EXCEPT !.state = "Rejected",
                           !.response = [present |-> TRUE, success |-> FALSE,
                                         message |-> "InvalidRecipient"]]]
    /\ log' = IF ValidRequest(dispatch[d])
              THEN Append(log, SendRecord(d, dispatch[d],
                       [returned |-> TRUE, success |-> TRUE, message |-> ""]))
              ELSE log
    /\ UNCHANGED <<settings, doctype, config, docstatus, clicks, ui>>

\* The request reaches the server.  A valid one enters Dispatching (the
\* delivery collaborator is invoked); an invalid one is answered with
\* InvalidRecipient and nothing else happens.
ServerReceive(d) ==
    /\ dispatch[d].state = "Validating"
    /\ dispatch' = [dispatch EXCEPT ![d] =
            IF ValidRequest(@)
            THEN [@ EXCEPT !.state = "Dispatching", !.calls = @ + 1]
            ELSE [@ EXCEPT !.state = "Rejected",
                           !.response = [present |-> TRUE, success |-> FALSE,
                                         message |-> "InvalidRecipient"]]]
    /\ UNCHANGED <<settings, server, clicks, ui>>

\* What the delivery call comes to: success, a failure the collaborator
\* reports with message m, or a timeout, a thrown transport error, a missing
\* credential, each turned into a failure result with its error text.
DeliveryResult(o, m) ==
    [returned |-> TRUE,
     success |-> (o = "success"),
     message |-> CASE o = "success" -> ""
                   [] o = "failure" -> m
                   [] o = "timeout" -> "timeout"
                   [] o = "transport_error" -> "transport error"
                   [] OTHER -> "API key not configured"]

\* The delivery call of dispatch d returns: the server, now knowing the
\* result, appends the attempt's record and answers the send call with
\* {success, message}.
DeliveryReturn(d, o, m) ==
    /\ dispatch[d].state = "Dispatching"
    /\ LET res == DeliveryResult(o, m)
       IN /\ log' = Append(log, SendRecord(d, dispatch[d], res))
          /\ dispatch' = [dispatch EXCEPT ![d] =
                [@ EXCEPT !.state = "Recorded", !.outcome = o, !.result = res,
                          !.response = [present |-> TRUE, success |-> res.success,
                                        message |-> res.message]]]
    /\ UNCHANGED <<settings, doctype, config, docstatus, clicks, ui>>

\* Mutant: the callback tests r.success, which the response does not have,
\* so every result is shown as a failure.
send_callback_always_failed(r) ==
    [shown |-> TRUE, success |-> FALSE,
     message |-> IF r.present THEN r.message ELSE "Unknown error"]

\* Mutant: the failure branch shows the generic text, not r.message.message.
send_callback_generic(r) ==
    IF r.present /\ r.success
    THEN [shown |-> TRUE, success |-> TRUE, message |-> "Email sent successfully"]
    ELSE [shown |-> TRUE, success |-> FALSE, message |-> "Unknown error"]

\* ------------------------------------------- callback of the send call
\* What the callback shows: the green alert when r.message &&
\* r.message.success, else msgprint "Email Failed" with
\* r.message ? r.message.message : __("Unknown error").
send_callback(r) ==
    IF r.present /\ r.success
    THEN [shown |-> TRUE, success |-> TRUE, message |-> "Email sent successfully"]
    ELSE [shown |-> TRUE, success |-> FALSE,
          message |-> IF r.present THEN r.message ELSE "Unknown error"]

\* Mutant: the callback has no else branch: a failure is answered by nothing.
SendCallbackSilentFailure(d) ==
    /\ dispatch[d].state \in {"Recorded", "Rejected"}
    /\ dispatch[d].response.success
    /\ dispatch' = [Forget(dispatch) EXCEPT ![d] =
           [@ EXCEPT !.state = "Resolved",
                     !.notice = [shown |-> TRUE, success |-> TRUE,
                                 message |-> "Email sent successfully"]]]
    /\ buttons' = IF dispatch[d].form \in Forms
                  THEN refresh(dispatch[d].form, docstatus, log)
                  ELSE buttons
    /\ UNCHANGED <<settings, server, clicks, enabled_check, prompt, loading, dialogs>>

\* Mutant: on a failure the callback sends the same request again.
SendCallbackRetry(d) ==
    /\ dispatch[d].state \in {"Recorded", "Rejected"}
    /\ LET r == dispatch[d].response
           n == [shown |-> TRUE, success |-> r.success,
                 message |-> IF r.success THEN "Email sent successfully" ELSE r.message]
           done == [Forget(dispatch) EXCEPT ![d] =
                       [@ EXCEPT !.state = "Resolved", !.notice = n]]
       IN /\ dispatch' = IF ~n.success /\ Len(dispatch) < MaxDispatch
                         THEN Append(done, NewAttempt(dispatch[d].form,
                                  [to_email |-> dispatch[d].to_email, cc |-> dispatch[d].cc],
                                  "Validating"))
                         ELSE done
          /\ buttons' = IF n.success /\ dispatch[d].form \in Forms
                        THEN refresh(dispatch[d].form, docstatus, log)
                        ELSE buttons
    /\ UNCHANGED <<settings, server, clicks, enabled_check, prompt, loading, dialogs>>

\* Mutant: on a failure the callback also deletes the document's Failed
\* Communication rows, so that only what was delivered stays in the timeline.
SendCallbackPrunesFailed(d) ==
    /\ dispatch[d].state \in {"Recorded", "Rejected"}
    /\ LET n == send_callback(dispatch[d].response)
       IN /\ dispatch' = [Forget(dispatch) EXCEPT ![d] =
                              [@ EXCEPT !.state = "Resolved", !.notice = n]]
          /\ buttons' = IF n.success /\ dispatch[d].form \in Forms
                        THEN refresh(dispatch[d].form, docstatus, log)
                        ELSE buttons
          /\ log' = IF n.success THEN log
                    ELSE SelectSeq(log, LAMBDA rec : rec.status # "Failed")
    /\ UNCHANGED <<settings, doctype, config, docstatus, clicks, enabled_check, prompt,
                   loading, dialogs>>

\* The send call of dispatch d returns to its form: the page is unfrozen,
\* the result is shown, and on success frm.reload_doc() renders the form
\* again.
SendCallback(d) ==
    /\ dispatch[d].state \in {"Recorded", "Rejected"}
    /\ LET n == send_callback(dispatch[d].response)
       IN /\ dispatch' = [Forget(dispatch) EXCEPT ![d] =
                              [@ EXCEPT !.state = "Resolved", !.notice = n]]
          /\ buttons' = IF n.success /\ dispatch[d].form \in Forms
                        THEN refresh(dispatch[d].form, docstatus, log)
                        ELSE buttons
    /\ UNCHANGED <<settings, server, clicks, enabled_check, prompt, loading, dialogs>>

\* ------------------------------------------------------------------- Next
Next ==
    \/ \E f \in Forms : Refresh(f)
    \/ \E f \in Forms : Submit(f)
    \/ \E f \in Forms : Cancel(f)
    \/ \E f \in Forms : PromptCallback(f)
    \/ \E f \in Forms : PromptYes(f)
    \/ \E f \in Forms : PromptNo(f)
    \/ \E f \in Forms : ClickButton(f)
    \/ \E f \in Forms : RecipientCallback(f)
    \/ \E f \in Forms : DialogClose(f)
    \/ \E f \in Forms, v \in DialogValues, strict \in BOOLEAN : DialogSend(f, v, strict)
    \/ \E v \in DialogValues, strict \in BOOLEAN : OtherSend(v, strict)
    \/ \E d \in Ids : ServerReceive(d)
    \/ \E d \in Ids, o \in Outcomes, m \in FailureMessages : DeliveryReturn(d, o, m)
    \/ \E d \in Ids : SendCallback(d)

Spec == Init /\ [][Next]_vars

\* The server handles a request it has received, the delivery call returns
\* (the framework bounds it by a timeout), and the browser runs the callback
\* of a call that has returned.
Fairness ==
    \A d \in 1..MaxDispatch :
        /\ WF_vars(d \in Ids /\ ServerReceive(d))
        /\ WF_vars(d \in Ids /\ \E o \in Outcomes, m \in FailureMessages :
                                    DeliveryReturn(d, o, m))
        /\ WF_vars(d \in Ids /\ SendCallback(d))

FairSpec == Init /\ [][Next]_vars /\ Fairness

\* ================================================ Email Service Settings
\* The settings form (email_service_settings.js): the child table
\* supported_doctypes of the open form, edited row by row or filled by
\* "Detect Available Doctypes" / "Add All Unconfigured".  The form is not
\* saved in the model: the server's validation of a save is not part of the
\* sources.

\* Rows of the child table in the open form.
MaxRows == 3
\* get_available_doctypes_for_site calls in flight plus dialogs they opened.
MaxDetect == 2

\* The doctypes get_available_doctypes_for_site reports, in its order.
AvailableDocTypes == <<"Quotation", "Sales Order">>
SettingsDocTypes == {AvailableDocTypes[i] : i \in DOMAIN AvailableDocTypes}

\* The Print Format records of the site: name |-> doc_type (all enabled).
PrintFormats == {"Quotation Classic", "Sales Order Classic"}
doc_type(pf) == IF pf = "Quotation Classic" THEN "Quotation" ELSE "Sales Order"

\* get_doctype_defaults(doctype).recipient_field
default_recipient_field(dt) == "contact_email"

\* A row as the grid's "Add Row" creates it.
EmptyRow == [doctype_name |-> "", print_format |-> "", recipient_field |-> ""]

\* A row the server holds for doctype dt.
SavedRow(dt) ==
    [doctype_name |-> dt, print_format |-> "",
     recipient_field |-> default_recipient_field(dt)]

\* get_available_doctypes_for_site: each available doctype with
\* is_configured, which the server tells from the rows it holds.
get_available_doctypes_for_site(sv) ==
    [i \in DOMAIN AvailableDocTypes |->
        [doctype |-> AvailableDocTypes[i],
         is_configured |-> AvailableDocTypes[i] \in sv,
         default_recipient_field |-> default_recipient_field(AvailableDocTypes[i])]]

\* let unconfigured = doctypes.filter((dt) => !dt.is_configured)
unconfigured_of(doctypes) == SelectSeq(doctypes, LAMBDA dt : ~dt.is_configured)

\* frm.set_query("print_format", ...): the Print Formats the link field
\* offers for a row: those of the row's doctype once it has one, else all.
print_format_query(row) ==
    IF row.doctype_name # ""
    THEN {pf \in PrintFormats : doc_type(pf) = row.doctype_name}
    ELSE PrintFormats

\* add_unconfigured_doctypes(frm, doctypes): one frm.add_child per doctype.
add_unconfigured_doctypes(rs, doctypes) ==
    rs \o [i \in DOMAIN doctypes |->
              [doctype_name |-> doctypes[i].doctype, print_format |-> "",
               recipient_field |-> doctypes[i].default_recipient_field]]

\* "Email Doctype Configuration".doctype_name: the handler of a change of
\* the row's doctype and the callback of its get_doctype_defaults call,
\* which writes recipient_field, recipient_doctype and source_app.
doctype_name(row) ==
    IF row.doctype_name = ""
    THEN row
    ELSE [row EXCEPT !.recipient_field = default_recipient_field(row.doctype_name)]

\* The settings form is opened on what the server holds.
SettingsInit ==
    /\ doctype = "Quotation"
    /\ config = NoRow
    /\ docstatus = 0
    /\ log = << >>
    /\ dispatch = << >>
    /\ clicks = 0
    /\ buttons = [f \in Forms |-> NoButtons]
    /\ enabled_check = [f \in Forms |-> FALSE]
    /\ prompt = [f \in Forms |-> FALSE]
    /\ loading = [f \in Forms |-> 0]
    /\ dialogs = [f \in Forms |-> 0]
    /\ saved \in SUBSET SettingsDocTypes
    /\ rows = LET held == SelectSeq(AvailableDocTypes, LAMBDA dt : dt \in saved)
              IN [i \in DOMAIN held |-> SavedRow(held[i])]
    /\ detect_calls = 0
    /\ available = << >>
    /\ edited = FALSE

\* A modal dialog covers the settings form.
SettingsBlocked == available # << >>

\* The grid's "Add Row".
AddRow ==
    /\ ~SettingsBlocked
    /\ Len(rows) < MaxRows
    /\ rows' = Append(rows, EmptyRow)
    /\ edited' = TRUE
    /\ UNCHANGED <<server, dispatch, clicks, ui, saved, detect_calls, available>>

\* The administrator picks doctype dt in row i; the doctype_name handler runs.
SetDoctypeName(i, dt) ==
    /\ ~SettingsBlocked
    /\ i \in DOMAIN rows
    /\ rows[i].doctype_name # dt
    /\ rows' = [rows EXCEPT ![i] = doctype_name([@ EXCEPT !.doctype_name = dt])]
    /\ edited' = TRUE
    /\ UNCHANGED <<server, dispatch, clicks, ui, saved, detect_calls, available>>

\* The administrator picks a Print Format in row i from what the link
\* field's query offers.
SetPrintFormat(i, pf) ==
    /\ ~SettingsBlocked
    /\ i \in DOMAIN rows
    /\ pf \in print_format_query(rows[i])
    /\ rows[i].print_format # pf
    /\ rows' = [rows EXCEPT ![i].print_format = pf]
    /\ edited' = TRUE
    /\ UNCHANGED <<server, dispatch, clicks, ui, saved, detect_calls, available>>

\* "Detect Available Doctypes" is clicked: the call is sent (the page is not
\* frozen, so the button can be clicked again before the answer is back).
DetectClick ==
    /\ ~SettingsBlocked
    /\ detect_calls + Len(available) < MaxDetect
    /\ detect_calls' = detect_calls + 1
    /\ UNCHANGED <<server, dispatch, clicks, ui, saved, rows, available, edited>>

\* callback of get_available_doctypes_for_site:
\* show_available_doctypes_dialog(frm, r.message).
DetectCallback ==
    /\ detect_calls > 0
    /\ detect_calls' = detect_calls - 1
    /\ available' = Append(available,
                        unconfigured_of(get_available_doctypes_for_site(saved)))
    /\ UNCHANGED <<server, dispatch, clicks, ui, saved, rows, edited>>

\* "Add All Unconfigured" of the topmost dialog, which it has only when its
\* list is not empty: add_unconfigured_doctypes(frm, unconfigured);
\* dialog.hide().
AddAllUnconfigured ==
    /\ available # << >>
    /\ LET unconfigured == available[Len(available)]
       IN /\ Len(unconfigured) > 0
          /\ Len(rows) + Len(unconfigured) <= MaxRows
          /\ rows' = add_unconfigured_doctypes(rows, unconfigured)
    /\ available' = SubSeq(available, 1, Len(available) - 1)
    /\ UNCHANGED <<server, dispatch, clicks, ui, saved, detect_calls, edited>>

\* The topmost dialog is dismissed.
AvailableClose ==
    /\ available # << >>
    /\ available' = SubSeq(available, 1, Len(available) - 1)
    /\ UNCHANGED <<server, dispatch, clicks, ui, saved, rows, detect_calls, edited>>

SettingsNext ==
    \/ AddRow
    \/ \E i \in 1..MaxRows, dt \in SettingsDocTypes : SetDoctypeName(i, dt)
    \/ \E i \in 1..MaxRows, pf \in PrintFormats : SetPrintFormat(i, pf)
    \/ DetectClick
    \/ DetectCallback
    \/ AddAllUnconfigured
    \/ AvailableClose

SettingsSpec == SettingsInit /\ [][SettingsNext]_vars

\* ================================================================= claims
Attempt(d) == dispatch[d]
\* The attempts kept in full: those under way and the latest finished one.
Kept == {d \in Ids : dispatch[d].state # "Done"}
\* The delivery call of attempt d has returned and its record is written.
Recorded(d) == Attempt(d).state \in {"Recorded", "Resolved"} /\ Attempt(d).result.returned
Resend(b) == b["Resend Email"] > 0
Offered(b) == \E l \in Labels : b[l] > 0

\* C1: whenever a form's check puts a send button on the form, the button is
\* "Resend Email" if and only if the log holds a Success record (medium
\* Email, direction Sent) for the document; Failed records alone give
\* "Send Email".
C1_AlreadySentIffSuccess ==
    [][\A f \in Forms :
          (buttons'[f] # buttons[f] /\ Offered(buttons'[f]))
             => (Resend(buttons'[f]) <=> hasSuccessfulSend(log', doctype', DocName))]_vars

\* C2: a dispatch whose delivery call reported success has exactly one record
\* in the log, a Success record for the document, the log holds one record
\* per recorded dispatch, and the result shown to the caller is a success.
C2_SuccessOneRecord ==
    /\ Len(log) = Cardinality({d \in Ids :
                        Recorded(d) \/ (Attempt(d).state = "Done" /\ Attempt(d).calls = 1)})
    /\ \A d \in Kept :
          (Recorded(d) /\ Attempt(d).outcome = "success") =>
             /\ Cardinality(RecordsOf(log, d)) = 1
             /\ \A i \in RecordsOf(log, d) :
                   /\ log[i].status = "Success"
                   /\ log[i].reference_doctype = doctype
                   /\ log[i].reference_name = DocName
             /\ Attempt(d).state = "Resolved" =>
                   Attempt(d).notice.shown /\ Attempt(d).notice.success

C2_Witness ==
    \E d \in Kept :
        /\ Attempt(d).state = "Resolved"
        /\ Attempt(d).outcome = "success"
        /\ Len(log) = 1

\* C3: a dispatch whose delivery call reported failure with message m has a
\* Failed record whose error detail is m, and the caller is shown a failure
\* carrying m itself; no resolved failure is shown as "Unknown error".
C3_FailureVerbatim ==
    \A d \in Kept :
       /\ (Recorded(d) /\ Attempt(d).outcome = "failure") =>
             /\ Attempt(d).result.message \in FailureMessages
             /\ \E i \in RecordsOf(log, d) :
                   log[i].status = "Failed" /\ log[i].error = Attempt(d).result.message
             /\ Attempt(d).state = "Resolved" =>
                   /\ Attempt(d).notice.shown
                   /\ ~Attempt(d).notice.success
                   /\ Attempt(d).notice.message = Attempt(d).result.message
       /\ (Attempt(d).state = "Resolved" /\ ~Attempt(d).notice.success) =>
             /\ Attempt(d).response.present
             /\ Attempt(d).notice.message = Attempt(d).response.message
             /\ Attempt(d).notice.message # "Unknown error"

C3_Witness ==
    \E d \in Kept :
        /\ Attempt(d).state = "Resolved"
        /\ Attempt(d).outcome = "failure"
        /\ Attempt(d).notice.message = "quota exceeded"
        /\ \E i \in RecordsOf(log, d) : log[i].error = "quota exceeded"

\* C4: a dispatch whose recipient is empty or malformed (or whose CC is
\* malformed) never reaches Dispatching: the delivery collaborator is not
\* invoked for it, it has no record in the log, and it ends with
\* InvalidRecipient; a dispatch with a valid recipient and an empty CC is
\* never held back or rejected.
C4_InvalidRecipientNoRecord ==
    \A d \in Kept :
       /\ ~ValidRequest(Attempt(d)) =>
             /\ Attempt(d).state \in {"Blocked", "Validating", "Rejected", "Resolved"}
             /\ Attempt(d).calls = 0
             /\ ~Attempt(d).result.returned
             /\ RecordsOf(log, d) = {}
             /\ Attempt(d).state \in Terminal =>
                   /\ ~Attempt(d).notice.success
                   /\ Attempt(d).notice.message = "InvalidRecipient"
       /\ (IsEmail(Attempt(d).to_email) /\ Attempt(d).cc = "") =>
             /\ Attempt(d).state \notin {"Blocked", "Rejected"}
             /\ Attempt(d).notice.message # "InvalidRecipient"

\* A malformed recipient was rejected and its form told so; then an empty
\* one is held back in the dialog.
C4_Witness ==
    /\ Len(dispatch) = 2
    /\ Attempt(1).state = "Done" /\ Attempt(1).calls = 0
    /\ Attempt(2).to_email = "" /\ Attempt(2).state = "Blocked"
    /\ Attempt(2).notice.message = "InvalidRecipient"
    /\ log = << >>

\* C5: every dispatch that enters Dispatching is eventually resolved with a
\* result shown to the caller, whatever the delivery call comes to; a resolved
\* dispatch shows a success exactly when the delivery succeeded, and a
\* failure with the error's own text otherwise.
C5_EveryDispatchResolves ==
    /\ [](\A d \in Kept :
            (Attempt(d).state = "Resolved" /\ Attempt(d).result.returned) =>
               /\ Attempt(d).notice.shown
               /\ Attempt(d).notice.success <=> (Attempt(d).outcome = "success")
               /\ ~Attempt(d).notice.success =>
                     Attempt(d).notice.message = Attempt(d).result.message)
    /\ \A d \in 1..MaxDispatch :
          (d \in Ids /\ Attempt(d).state = "Dispatching")
             ~> (d \in Ids /\ Attempt(d).state = "Resolved" /\ Attempt(d).notice.shown)

C5_Witness ==
    /\ \E d \in Kept : /\ Attempt(d).state = "Resolved"
                      /\ Attempt(d).outcome = "unconfigured"
                      /\ Attempt(d).notice.message = "API key not configured"
    /\ \E d \in Kept : /\ Attempt(d).state = "Recorded"
                      /\ Attempt(d).outcome = "transport_error"

\* C6: every record of the log belongs to a dispatch whose delivery call was
\* made and has returned; a Success record belongs to a delivery that
\* succeeded.  No record exists for a dispatch still validating or dispatching.
C6_RecordAfterDelivery ==
    \A i \in DOMAIN log :
        LET d == log[i].dispatch
        IN /\ d \in Ids
           /\ Attempt(d).calls = 1
           /\ Attempt(d).state \in {"Recorded", "Resolved", "Done"}
           /\ Attempt(d).state # "Done" =>
                 /\ Attempt(d).result.returned
                 /\ log[i].status = "Success" <=> Attempt(d).result.success

C6_Witness ==
    /\ \E d \in Kept : Attempt(d).state = "Dispatching"
    /\ \E d \in Kept : Attempt(d).state = "Recorded" /\ Attempt(d).outcome = "success"
    /\ Len(log) = 1

\* C7: while the document's type has no configuration row, no form offers a
\* send: no button, no after-submit prompt, no dialog, whatever the status.
C7_NoRowNotEligible ==
    ~config.present =>
        \A f \in Forms :
            /\ ~Offered(buttons[f])
            /\ ~prompt[f]
            /\ loading[f] = 0 /\ dialogs[f] = 0

\* The document was submitted in a form (refresh and after_submit ran) and
\* the prompt's check has come back.
C7_Witness ==
    /\ ~config.present
    /\ doctype \in SUPPORTED_DOCTYPES
    /\ docstatus = 1
    /\ \A f \in Forms : ~enabled_check[f]

\* C8: when the configuration requires submission and the document is not
\* submitted, no check offers a send: no form gains a button and no form is
\* shown the after-submit prompt.
C8_NoOfferUnlessSubmitted ==
    [][(config.present /\ config.require_submit /\ docstatus' # 1) =>
          \A f \in Forms :
              /\ prompt'[f] => prompt[f]
              /\ buttons'[f] # buttons[f] => ~Offered(buttons'[f])]_vars

\* C9: a dispatch invokes the delivery collaborator at most once and has at
\* most one record; once it is resolved (or held back) nothing more happens
\* to it or to its records; and a dispatch starts only with a click on a
\* dialog's Send.
C9_NoAutomaticRetry ==
    [][/\ \A d \in DOMAIN dispatch' :
             /\ dispatch'[d].calls <= 1
             /\ Cardinality(RecordsOf(log', d)) <= 1
       /\ \A d \in Ids :
             Attempt(d).state \in Finished =>
                /\ dispatch'[d] \in {dispatch[d], Tombstone(dispatch[d])}
                /\ RecordsOf(log', d) = RecordsOf(log, d)
       /\ Len(dispatch') - Len(dispatch) = clicks' - clicks
       /\ Len(log') >= Len(log)]_vars

\* A resolved failure next to a later, operator-started dispatch.
C9_Witness ==
    /\ Len(dispatch) = 2
    /\ Attempt(1).state = "Resolved" /\ Attempt(1).outcome = "timeout"
    /\ Attempt(2).state = "Dispatching"
    /\ Len(log) = 1

\* C10: no valid send is refused or held back, whatever else is in flight,
\* and two dispatches whose deliveries both succeeded each have their own
\* Success record: two records for the document, none lost or merged.
C10_DoubleSubmissionTwoRecords ==
    /\ \A d \in Kept :
          ValidRequest(Attempt(d)) => Attempt(d).state \notin {"Blocked", "Rejected"}
    /\ \A d1, d2 \in Kept :
          (d1 # d2 /\ Recorded(d1) /\ Recorded(d2)
             /\ Attempt(d1).outcome = "success" /\ Attempt(d2).outcome = "success")
          => /\ Cardinality(RecordsOf(log, d1)) = 1
             /\ Cardinality(RecordsOf(log, d2)) = 1
             /\ RecordsOf(log, d1) \cap RecordsOf(log, d2) = {}
             /\ Cardinality({i \in DOMAIN log : log[i].status = "Success"}) >= 2
             /\ get_count(log, doctype, DocName) >= 2

\* Both send calls are outstanding at once and both deliveries succeeded.
C10_Witness ==
    /\ Len(dispatch) = 2
    /\ Attempt(1).form # Attempt(2).form
    /\ Attempt(1).state = "Recorded" /\ Attempt(1).outcome = "success"
    /\ Attempt(2).state = "Recorded" /\ Attempt(2).outcome = "success"
    /\ Len(log) = 2

\* C11: send history never blocks a send.  Whenever the document is submitted
\* and its type is listed and enabled, every form carries a send button
\* ("Send Email" or "Resend Email"), whatever records the log holds, and the
\* check run again on the same log offers it again; the log only selects
\* the label.
C11_ResendNeverBlocked ==
    (/\ doctype \in SUPPORTED_DOCTYPES
     /\ response_enabled(check_doctype_email_enabled(config))
     /\ docstatus = 1)
    => \A f \in Forms :
          /\ Offered(buttons[f])
          /\ Offered(setup_send_email_button(buttons[f], doctype, docstatus, config, log))

\* After a successful send the form shows "Resend Email", and a second send
\* started from it has reached the delivery collaborator.
C11_Witness ==
    /\ Len(dispatch) = 2
    /\ Attempt(1).state = "Resolved" /\ Attempt(1).outcome = "success"
    /\ Attempt(2).form \in Forms
    /\ Resend(buttons[Attempt(2).form])
    /\ Attempt(2).state = "Dispatching"
    /\ hasSuccessfulSend(log, doctype, DocName)

\* C12: the form's check is idempotent.  In every state, running it a second
\* time on the form it has just been run on leaves the same buttons (the
\* same single button with the same label, or none); and a form refresh
\* changes neither the document, its configuration nor the log, finds the
\* same eligible and alreadySent after it as before it, and leaves buttons
\* that a further refresh would leave as they are.
C12_CheckIdempotent ==
    /\ [](LET once == setup_send_email_button(NoButtons, doctype, docstatus, config, log)
          IN setup_send_email_button(once, doctype, docstatus, config, log) = once)
    /\ [][\A f \in Forms :
            Refresh(f) =>
               /\ server' = server
               /\ response_enabled(check_doctype_email_enabled(config'))
                     = response_enabled(check_doctype_email_enabled(config))
               /\ check_email_sent(log', doctype', DocName)
                     = check_email_sent(log, doctype, DocName)
               /\ setup_send_email_button(buttons'[f], doctype', docstatus', config', log')
                     = buttons'[f]
               /\ setup_send_email_button(NoButtons, doctype', docstatus', config', log')
                     = buttons'[f]
               /\ Cardinality({l \in Labels : buttons'[f][l] > 0}) <= 1
               /\ \A l \in Labels : buttons'[f][l] <= 1]_vars

\* A refresh has changed the form: the other session's send was recorded,
\* and the form, which has sent nothing itself, shows "Resend Email".
C12_Witness ==
    /\ Len(log) = 1
    /\ \A d \in Ids : Attempt(d).form = OtherSession
    /\ \E f \in Forms : Resend(buttons[f])

\* What each of the two checks finds.  The button's check (refresh) reads the
\* document status, the list and the server's answer; the prompt's check
\* (after_submit) reads the list and the server's answer.
ButtonCheckEligible ==
    /\ docstatus = 1
    /\ doctype \in SUPPORTED_DOCTYPES
    /\ response_enabled(check_doctype_email_enabled(config))
PromptCheckEligible ==
    /\ doctype \in SUPPORTED_DOCTYPES
    /\ response_enabled(check_doctype_email_enabled(config))

\* C13: a check that finds the document ineligible ends there.  While the
\* document's type is not listed or not enabled, nothing is ever offered or
\* started: no button, prompt or dialog, no send attempt, no delivery call,
\* no record.  And the step of a check that finds the document ineligible
\* leaves the form without a button (refresh) or without a prompt (the
\* after-submit callback) and changes neither the log nor the attempts nor
\* the dialogs.
C13_IneligibleIsTerminal ==
    /\ [](~PromptCheckEligible =>
            /\ log = << >>
            /\ dispatch = << >>
            /\ \A f \in Forms :
                  /\ ~Offered(buttons[f])
                  /\ ~prompt[f]
                  /\ loading[f] = 0 /\ dialogs[f] = 0)
    /\ [][\A f \in Forms :
            /\ ((Refresh(f) \/ Submit(f) \/ Cancel(f)) /\ ~ButtonCheckEligible')
                  => /\ ~Offered(buttons'[f])
                     /\ <<log, dispatch, prompt, loading, dialogs>>'
                           = <<log, dispatch, prompt, loading, dialogs>>
            /\ (enabled_check[f] /\ ~enabled_check'[f] /\ ~PromptCheckEligible)
                  => /\ prompt'[f] = prompt[f]
                     /\ <<log, dispatch, buttons, loading, dialogs>>'
                           = <<log, dispatch, buttons, loading, dialogs>>]_vars

\* The type is listed but its row is disabled, the document was submitted,
\* and the after-submit check has come back.
C13_Witness ==
    /\ doctype \in SUPPORTED_DOCTYPES
    /\ config.present /\ ~config.enabled
    /\ docstatus = 1
    /\ \A f \in Forms : ~enabled_check[f]

\* C14: the log is append-only.  Every step leaves the records already in
\* the log where and as they are: the log before the step is a prefix of the
\* log after it, and a step adds at most one record, at the end.
C14_LogAppendOnly ==
    [][/\ Len(log') >= Len(log)
       /\ Len(log') <= Len(log) + 1
       /\ SubSeq(log', 1, Len(log)) = log]_vars

\* A failed attempt's record is still first in the log after a later
\* attempt succeeded and both were reported to their callers.
C14_Witness ==
    /\ Len(log) = 2
    /\ log[1].status = "Failed" /\ log[1].error = "timeout"
    /\ log[2].status = "Success"
    /\ \A d \in Ids : Attempt(d).state \in Finished

\* The document types the design document names for branded email.
BrandedDocumentTypes ==
    {"Quotation", "Sales Order", "Payment Entry", "Purchase Order",
     "Payment Request", "Sales Invoice", "Delivery Note"}

\* C15: for each of the seven document types, a submitted document whose
\* type has an enabled configuration row is offered the send action on every
\* form; a document of a type outside the seven is never offered it.
C15_SevenTypesOffered ==
    /\ (/\ doctype \in BrandedDocumentTypes
        /\ docstatus = 1
        /\ config.present /\ config.enabled)
       => \A f \in Forms : Offered(buttons[f])
    /\ doctype \notin BrandedDocumentTypes
       => \A f \in Forms :
             ~Offered(buttons[f]) /\ ~prompt[f] /\ loading[f] = 0 /\ dialogs[f] = 0

\* C16: in every state of the settings form, a row that has a doctype and a
\* print format has a print format of that doctype, whatever the order in
\* which the row's doctype and print format were chosen and changed.
C16_PrintFormatBelongs ==
    \A i \in DOMAIN rows :
        (rows[i].doctype_name # "" /\ rows[i].print_format # "")
           => doc_type(rows[i].print_format) = rows[i].doctype_name

\* C17: in every state the settings form reaches by "Detect Available
\* Doctypes" and "Add All Unconfigured" alone (no row added or changed by
\* hand), however often they are repeated before a save, no two rows of the
\* form have the same doctype.
C17_OneRowPerDocType ==
    ~edited =>
        \A i, j \in DOMAIN rows :
            i # j => rows[i].doctype_name # rows[j].doctype_name

\* C18: in every state every form carries at most one send button: never
\* "Send Email" together with "Resend Email", never two of the same label.
C18_AtMostOneButton ==
    \A f \in Forms :
        /\ buttons[f]["Send Email"] + buttons[f]["Resend Email"] <= 1
        /\ ~(buttons[f]["Send Email"] > 0 /\ buttons[f]["Resend Email"] > 0)

\* The form's own send succeeded and was reported to it, which reloaded the
\* form: "Send Email" has given way to "Resend Email".
C18_Witness ==
    \E f \in Forms :
        /\ buttons[f]["Resend Email"] = 1
        /\ buttons[f]["Send Email"] = 0
        /\ \E d \in Kept : /\ Attempt(d).form = f
                            /\ Attempt(d).state = "Resolved"
                            /\ Attempt(d).notice.success
        /\ Len(log) = 1

\* C19: on one form, two dispatches are never with the delivery collaborator
\* at the same time: while a send of the form is in Dispatching, the form
\* has no second send in Dispatching.
C19_OneDispatchingPerForm ==
    \A f \in Forms :
        Cardinality({d \in Kept : /\ Attempt(d).form = f
                                  /\ Attempt(d).state = "Dispatching"}) <= 1

====
